---------------------------- MODULE Spec2Model ----------------------------
(***************************************************************************)
(* A model of the buffrs command line (src/src/main.rs) and of its         *)
(* Artifactory registry client (src/src/registry/artifactory.rs).          *)
(*                                                                         *)
(* One process runs one command.  What survives between commands is the    *)
(* manifest file, the package store, the config file, the system keyring   *)
(* and the remote registry.  Strings are strings, a character is a string  *)
(* of length 1, and splitting, trimming and formatting are computed the    *)
(* way the code computes them.  An Option<T> is a sequence of length 0     *)
(* (None) or 1 (Some).                                                     *)
(***************************************************************************)
EXTENDS Integers, Sequences, FiniteSets, TLC

VARIABLES
    manifest,   \* the manifest file: [exists, api, dependencies]
    store,      \* the package store: PackageId -> Option<[version, tgz]>
    config,     \* the config file's artifactory section: Option<[url, username]>
    keyring,    \* the system keyring: (url, username) -> Option<password>
    registry,   \* the remote registry: a set of [uri, tgz], one per uri
    pc,         \* "idle", or the phase of the running install command
    downloads,  \* install: one download future per dependency
    installs,   \* install: one install future per downloaded package
    wire,       \* the requests the running (or last) command sent
    before,     \* the package store when the running (or last) command started
    last        \* the running (or last) command: [cmd, arg, res, fault]

vars ==
    <<manifest, store, config, keyring, registry, pc, downloads, installs, wire,
      before, last>>

----------------------------------------------------------------------------
(* Bounds of the model. *)

\* The longest dependency list a manifest grows to.
MaxDeps == 2

----------------------------------------------------------------------------
(* Characters and strings. *)

LowerAscii ==
    {"a", "b", "c", "d", "e", "f", "g", "h", "i", "j", "k", "l", "m",
     "n", "o", "p", "q", "r", "s", "t", "u", "v", "w", "x", "y", "z"}

UpperAscii == {"A", "B"}

Digits == {"0", "1", "2", "3", "4", "5", "6", "7", "8", "9"}

\* "~" stands for a lowercase letter outside ASCII, such as U+00E9.
LowerUnicode == {"~"}

\* " " stands for every white space character, a line end among them.
WhiteSpace == {" "}

\* char::is_lowercase
is_lowercase(c) == c \in LowerAscii \cup LowerUnicode

\* char::is_ascii_alphabetic
is_ascii_alphabetic(c) == c \in LowerAscii \cup UpperAscii

\* char::is_alphanumeric
is_alphanumeric(c) == c \in LowerAscii \cup UpperAscii \cup LowerUnicode \cup Digits

\* char::is_whitespace
is_whitespace(c) == c \in WhiteSpace

\* The i-th character of s.
CharAt(s, i) == SubSeq(s, i, i)

\* The index of the first c in s from i on, 0 when there is none.
RECURSIVE find_char(_, _, _)
find_char(s, c, i) ==
    IF i > Len(s) THEN 0
    ELSE IF CharAt(s, i) = c THEN i
    ELSE find_char(s, c, i + 1)

\* str::split_once: None, or the parts before and after the first c.
split_once(s, c) ==
    LET i == find_char(s, c, 1)
    IN  IF i = 0 THEN <<>>
        ELSE << <<SubSeq(s, 1, i - 1), SubSeq(s, i + 1, Len(s))>> >>

RECURSIVE trim_start(_)
trim_start(s) ==
    IF s # "" /\ is_whitespace(CharAt(s, 1)) THEN trim_start(SubSeq(s, 2, Len(s))) ELSE s

RECURSIVE trim_end(_)
trim_end(s) ==
    IF s # "" /\ is_whitespace(CharAt(s, Len(s)))
    THEN trim_end(SubSeq(s, 1, Len(s) - 1))
    ELSE s

\* str::trim
trim(s) == trim_end(trim_start(s))

\* str::contains
contains(s, pat) ==
    \E i \in 1..(Len(s) - Len(pat) + 1) : SubSeq(s, i, i + Len(pat) - 1) = pat

\* str::chars
chars(s) == [i \in 1..Len(s) |-> CharAt(s, i)]

\* The literal "-proto-" of the repository check.
ProtoInfix == "-proto-"

----------------------------------------------------------------------------
(* The values the commands are given. *)

Foo == "foo"
Bar == "bar"

\* The packages `remove` and `init --api` are given (clap parsed them).
PackageIds == {Foo, Bar}

RepoStable == "org-proto-stable"

V100 == "1.0.0"
V001 == "0.0.1"

\* "<repository>/<package>@<version>"
SpecString(repository, package, version) ==
    repository \o "/" \o package \o "@" \o version

\* The strings `add` is given where the registry commands run too.
PinnedSpecs ==
    {SpecString(RepoStable, p, V100) : p \in PackageIds}
    \cup {SpecString(RepoStable, Foo, V001)}

\* Strings made of a repository, a package and a version that keep every rule.
WellFormedSpecs ==
    PinnedSpecs
    \cup {"org-proto-stable/bar@0.0.1", "org-proto-stable/foo@",
          "org-proto-stable/foo@1-~"}

\* Strings that break a rule.
MalformedSpecs ==
    { "org-proto-stablefoo@1.0.0",      \* no '/'
      "org-proto-stable/foo1.0.0",      \* no '@'
      "foo@1.0.0/org-proto-stable",     \* no '@' after the '/'
      "org_proto_stable/foo@1.0.0",
      "Org-proto-stable/foo@1.0.0",
      "~rg-proto-stable/foo@1.0.0",
      "org-stable/foo@1.0.0",           \* no "-proto-"
      "proto-stable/foo@1.0.0",         \* no "-proto-"
      "/foo@1.0.0",
      "org-proto-stable/f_o@1.0.0",
      "org-proto-stable/Foo@1.0.0",
      "org-proto-stable/foo@1_0",
      "org-proto-stable/foo@1@0",
      "org-proto-stable/foo@1 0" }

\* Well-formed strings with white space around them.
PaddedSpecs == {" org-proto-stable/bar@1.0.0", "org-proto-stable/bar@1.0.0 "}

\* The strings `add` is given.
AddInputs == WellFormedSpecs \cup MalformedSpecs \cup PaddedSpecs

\* What `init --api` is given.
InitApis == {<<>>, <<Foo>>}

\* The registry `login --url` is given, as Url prints it.
Endpoint == "https://r/a"

Urls == {Endpoint}

Usernames == {"ann", "bob"}

\* The lines `login` reads from stdin, line end included.
TokenLines == {"x ", "y "}

\* The repositories `publish --repository` is given.
PublishRepositories == {RepoStable}

\* The archives PackageStore::release makes of the project's sources.
SourceArchives == {"local"}

----------------------------------------------------------------------------
(* The manifest, the package store and the parsing of a dependency. *)

\* lower_kebab without its ascii test.
lower_kebab_any_lowercase(c) == is_lowercase(c) \/ c = "-"

\* The closure lower_kebab of cmd::add.
lower_kebab(c) == (is_lowercase(c) /\ is_ascii_alphabetic(c)) \/ c = "-"

\* The closure of cmd::add's version check.
version_char(c) == is_alphanumeric(c) \/ c = "." \/ c = "-"

\* PackageId::from_str: lowercase ascii letters and hyphens only.
ValidPackageId(s) == \A i \in 1..Len(s) : lower_kebab(chars(s)[i])

\* Dependency::new
Dependency(repository, package, version) ==
    [repository |-> repository, package |-> package, version |-> version]

NoDependency == Dependency("", "", "")

Refused(err) == [err |-> err, dep |-> NoDependency]

\* The checks of cmd::add, in the code's order: the error of the first one
\* that fails, or "" and the dependency to push.
ParseDependency(dependency) ==
    LET first == split_once(trim(dependency), "/")
    IN  IF first = <<>> THEN Refused("InvalidSpec")
        ELSE
        LET repository == first[1][1]
            rest == first[1][2]
            second == split_once(rest, "@")
        IN  IF ~(\A i \in 1..Len(repository) : lower_kebab(chars(repository)[i]))
            THEN Refused("RepositoryFormat")
            ELSE IF ~contains(repository, ProtoInfix) THEN Refused("NotProtoRepository")
            ELSE IF second = <<>> THEN Refused("InvalidSpec")
            ELSE
            LET package == second[1][1]
                version == second[1][2]
            IN  IF ~ValidPackageId(package) THEN Refused("InvalidPackageId")
                ELSE IF ~(\A i \in 1..Len(version) : version_char(chars(version)[i]))
                THEN Refused("VersionFormat")
                ELSE [err |-> "", dep |-> Dependency(repository, package, version)]

\* Vec::push put at the front.
Pushed_front(dependencies, dependency) == <<dependency>> \o dependencies

\* manifest.dependencies.push(dependency)
Pushed(dependencies, dependency) == Append(dependencies, dependency)

\* The manifest of cmd::init with the api package at version 1.0.0.
NewManifest_released(api) ==
    [exists |-> TRUE,
     api |-> IF api = <<>> THEN <<>>
             ELSE <<[name |-> api[1], version |-> V100, description |-> <<>>]>>,
     dependencies |-> <<>>]

\* Manifest::default, with the api section cmd::init gives it.
NewManifest(api) ==
    [exists |-> TRUE,
     api |-> IF api = <<>> THEN <<>>
             ELSE <<[name |-> api[1], version |-> V001, description |-> <<>>]>>,
     dependencies |-> <<>>]

\* No manifest file.
NoManifest == [exists |-> FALSE, api |-> <<>>, dependencies |-> <<>>]

\* Manifest::write either persists the manifest or fails and leaves the file.
WriteOutcomes == {"ok", "IoError"}

\* Every package a store location can belong to.
StorePackages == PackageIds

EmptyStore == [p \in StorePackages |-> <<>>]

\* PackageStore::uninstall: the location is absent afterwards.
Uninstalled(s, package) == [s EXCEPT ![package] = <<>>]

\* PackageStore::uninstall either removes the location or fails.
UninstallOutcomes == {"ok", "UninstallFailed"}

\* PackageStore::install: the location holds the package afterwards.
Installed(s, package) ==
    [s EXCEPT ![package.name] = <<[version |-> package.version, tgz |-> package.tgz]>>]

\* The first dependency cmd::remove's find returns, None when there is none.
FindDependency(dependencies, package) ==
    LET hits == {i \in 1..Len(dependencies) : dependencies[i].package # package}
    IN  IF hits = {} THEN <<>>
        ELSE <<dependencies[CHOOSE i \in hits : \A j \in hits : i <= j]>>

\* Vec::retain(|d| *d != dependency)
Retain(dependencies, dependency) ==
    SelectSeq(dependencies, LAMBDA d : d # dependency)

----------------------------------------------------------------------------
(* The commands. *)

\* A command that ran to its end in one step.
Done(cmd, arg, res, fault) ==
    /\ last' = [cmd |-> cmd, arg |-> arg, res |-> res, fault |-> fault]
    /\ wire' = <<>>
    /\ before' = store
    /\ UNCHANGED <<pc, downloads, installs>>

\* cmd::init
CmdInit(api) ==
    /\ pc = "idle"
    /\ UNCHANGED <<store, config, keyring, registry>>
    /\ IF manifest.exists
       THEN /\ Done("init", api, "ExistingProject", "none")
            /\ UNCHANGED manifest
       ELSE \E io \in WriteOutcomes :
            /\ manifest' = IF io = "ok" THEN NewManifest(api) ELSE manifest
            /\ Done("init", api, io, IF io = "ok" THEN "none" ELSE "manifest write")

\* cmd::add
CmdAdd(dependency) ==
    /\ pc = "idle"
    /\ UNCHANGED <<store, config, keyring, registry>>
    /\ LET parsed == ParseDependency(dependency)
       IN  IF parsed.err # ""
           THEN /\ Done("add", dependency, parsed.err, "none")
                /\ UNCHANGED manifest
           ELSE IF ~manifest.exists
           THEN /\ Done("add", dependency, "ManifestNotFound", "none")
                /\ UNCHANGED manifest
           ELSE
           /\ Len(manifest.dependencies) < MaxDeps
           /\ \E io \in WriteOutcomes :
               /\ manifest' =
                    IF io = "ok"
                    THEN [manifest EXCEPT !.dependencies = Pushed(@, parsed.dep)]
                    ELSE manifest
               /\ Done("add", dependency, io, IF io = "ok" THEN "none" ELSE "manifest write")

\* cmd::remove with the manifest written before the store is asked.
CmdRemove_write_first(package) ==
    /\ pc = "idle"
    /\ UNCHANGED <<config, keyring, registry>>
    /\ IF ~manifest.exists
       THEN /\ Done("remove", package, "ManifestNotFound", "none")
            /\ UNCHANGED <<manifest, store>>
       ELSE
       LET found == FindDependency(manifest.dependencies, package)
       IN  IF found = <<>>
           THEN /\ Done("remove", package, "UnknownDependency", "none")
                /\ UNCHANGED <<manifest, store>>
           ELSE
           LET dependency == found[1]
               retained == Retain(manifest.dependencies, dependency)
           IN  \E io \in WriteOutcomes :
               IF io # "ok"
               THEN /\ Done("remove", package, io, "manifest write")
                    /\ UNCHANGED <<manifest, store>>
               ELSE
               /\ manifest' = [manifest EXCEPT !.dependencies = retained]
               /\ \E un \in UninstallOutcomes :
                   /\ store' = IF un = "ok"
                               THEN Uninstalled(store, dependency.package)
                               ELSE store
                   /\ Done("remove", package, un,
                           IF un = "ok" THEN "none" ELSE "store uninstall")

\* cmd::remove
CmdRemove(package) ==
    /\ pc = "idle"
    /\ UNCHANGED <<config, keyring, registry>>
    /\ IF ~manifest.exists
       THEN /\ Done("remove", package, "ManifestNotFound", "none")
            /\ UNCHANGED <<manifest, store>>
       ELSE
       LET found == FindDependency(manifest.dependencies, package)
       IN  IF found = <<>>
           THEN /\ Done("remove", package, "UnknownDependency", "none")
                /\ UNCHANGED <<manifest, store>>
           ELSE
           LET dependency == found[1]
               retained == Retain(manifest.dependencies, dependency)
           IN  \E un \in UninstallOutcomes :
               IF un # "ok"
               THEN /\ Done("remove", package, un, "store uninstall")
                    /\ UNCHANGED <<manifest, store>>
               ELSE
               /\ store' = Uninstalled(store, dependency.package)
               /\ \E io \in WriteOutcomes :
                   /\ manifest' =
                        IF io = "ok"
                        THEN [manifest EXCEPT !.dependencies = retained]
                        ELSE manifest
                   /\ Done("remove", package, io,
                           IF io = "ok" THEN "none" ELSE "manifest write")

\* cmd::uninstall
CmdUninstall ==
    /\ pc = "idle"
    /\ store' = EmptyStore
    /\ UNCHANGED <<manifest, config, keyring, registry>>
    /\ Done("uninstall", "", "ok", "none")

----------------------------------------------------------------------------
(* The registry client. *)

\* ArtifactoryConfig { url, username }
ArtifactoryConfig(url, username) == [url |-> url, username |-> username]

\* Every entry of the keyring the commands can name.
KeyringEntries == {ArtifactoryConfig(u, n) : u \in Urls, n \in Usernames}

\* ArtifactoryConfig::entry: the keyring entry of a config, keyring::Entry::new(url, username).
entry(cfg) == ArtifactoryConfig(cfg.url, cfg.username)

\* password() with its error turned into an empty password.
password_or_empty(cfg) ==
    IF keyring[entry(cfg)] = <<>> THEN <<"">> ELSE keyring[entry(cfg)]

\* ArtifactoryConfig::password: the stored password, None when there is none.
password(cfg) == keyring[entry(cfg)]

\* clear() that deletes nothing.
Cleared_nothing(k, cfg) == k

\* ArtifactoryConfig::clear, when delete_password succeeds.
Cleared(k, cfg) == [k EXCEPT ![entry(cfg)] = <<>>]

\* keyring::Entry::set_password either stores the password or fails.
SetPasswordOutcomes == {"ok", "SecretStoreError"}

\* keyring::Entry::delete_password: an error (NoEntry) when nothing is stored,
\* else the entry is deleted or the platform fails.
DeletePasswordOutcomes(cfg) ==
    IF keyring[entry(cfg)] = <<>> THEN {"NoEntry"} ELSE {"ok", "SecretStoreError"}

\* Config::write either persists the config or fails and leaves the file.
ConfigWriteOutcomes == {"ok", "IoError"}

\* format!("{}/{}/{}/{}-{}.tgz", url, repository, name, name, version)
ArtifactUri(url, repository, name, version) ==
    url \o "/" \o repository \o "/" \o name \o "/" \o name
        \o "-" \o version \o ".tgz"

\* The artifact the registry holds at a uri, None when there is none.
Artifact(uri) ==
    LET held == {a \in registry : a.uri = uri}
    IN  IF held = {} THEN <<>> ELSE <<(CHOOSE a \in held : TRUE).tgz>>

\* The registry after a PUT of tgz at uri.
Stored(uri, tgz) ==
    {a \in registry : a.uri # uri} \cup {[uri |-> uri, tgz |-> tgz]}

\* The archive another project published for a package.
UpstreamArchive(p) == IF p = Foo THEN "upstream-foo" ELSE "upstream-bar"

\* The artifacts other projects published before this one starts.
Upstream ==
    {[uri |-> ArtifactUri(Endpoint, RepoStable, p, V100), tgz |-> UpstreamArchive(p)]
        : p \in PackageIds}

\* What a GET can come back with: a success needs the artifact.
GetResponses(uri) ==
    IF Artifact(uri) = <<>> THEN {"FetchFailed", "TransportError"}
    ELSE {"ok", "FetchFailed", "TransportError"}

\* What a PUT can come back with.
PutResponses == {"ok", "PublishFailed", "TransportError"}

\* The request builder of download and publish, up to send().
Request(method, uri, cfg, body) ==
    [method |-> method, uri |-> uri, username |-> cfg.username,
     password |-> password(cfg)[1], body |-> body]

\* PackageStore::release: the error, or "" and the archive of the api package.
ReleaseOutcomes ==
    IF ~manifest.exists THEN {[err |-> "ManifestNotFound", package |-> <<>>]}
    ELSE IF manifest.api = <<>> THEN {[err |-> "NotAnApi", package |-> <<>>]}
    ELSE {[err |-> "", package |-> <<[name |-> manifest.api[1].name,
                                      version |-> manifest.api[1].version,
                                      tgz |-> t]>>] : t \in SourceArchives}

\* cmd::login with the connection record written before the password is stored.
CmdLogin_record_first(url, username) ==
    /\ pc = "idle"
    /\ UNCHANGED <<manifest, store, registry>>
    /\ LET cfg == ArtifactoryConfig(url, username)
       IN  \E line \in TokenLines, io \in ConfigWriteOutcomes :
           IF io # "ok"
           THEN /\ Done("login", cfg, io, "config write")
                /\ UNCHANGED <<config, keyring>>
           ELSE
           /\ config' = <<cfg>>
           /\ \E set \in SetPasswordOutcomes :
               /\ keyring' = IF set = "ok"
                             THEN [keyring EXCEPT ![entry(cfg)] = <<trim(line)>>]
                             ELSE keyring
               /\ Done("login", cfg, set, IF set = "ok" THEN "none" ELSE "keyring set")

\* cmd::login with the token kept in the connection record.
CmdLogin_storing_token(url, username) ==
    /\ pc = "idle"
    /\ UNCHANGED <<manifest, store, registry>>
    /\ LET cfg == ArtifactoryConfig(url, username)
       IN  \E line \in TokenLines, set \in SetPasswordOutcomes :
           IF set # "ok"
           THEN /\ Done("login", cfg, set, "keyring set")
                /\ UNCHANGED <<config, keyring>>
           ELSE
           /\ keyring' = [keyring EXCEPT ![entry(cfg)] = <<trim(line)>>]
           /\ \E io \in ConfigWriteOutcomes :
               /\ config' = IF io = "ok"
                            THEN <<[url |-> url, username |-> username,
                                    password |-> trim(line)]>>
                            ELSE config
               /\ Done("login", cfg, io, IF io = "ok" THEN "none" ELSE "config write")

\* cmd::login
CmdLogin(url, username) ==
    /\ pc = "idle"
    /\ UNCHANGED <<manifest, store, registry>>
    /\ LET cfg == ArtifactoryConfig(url, username)
       IN  \E line \in TokenLines, set \in SetPasswordOutcomes :
           IF set # "ok"
           THEN /\ Done("login", cfg, set, "keyring set")
                /\ UNCHANGED <<config, keyring>>
           ELSE
           /\ keyring' = [keyring EXCEPT ![entry(cfg)] = <<trim(line)>>]
           /\ \E io \in ConfigWriteOutcomes :
               /\ config' = IF io = "ok" THEN <<cfg>> ELSE config
               /\ Done("login", cfg, io, IF io = "ok" THEN "none" ELSE "config write")

\* cmd::logout
CmdLogout ==
    /\ pc = "idle"
    /\ UNCHANGED <<manifest, store, registry>>
    /\ \E del \in (IF config = <<>> THEN {"skip"} ELSE DeletePasswordOutcomes(config[1])) :
       IF del \notin {"skip", "ok"}
       THEN /\ Done("logout", "", "SecretStoreError",
                    IF del = "NoEntry" THEN "none" ELSE "keyring delete")
            /\ UNCHANGED <<config, keyring>>
       ELSE
       /\ keyring' = IF del = "ok" THEN Cleared(keyring, config[1]) ELSE keyring
       /\ \E io \in ConfigWriteOutcomes :
           /\ config' = IF io = "ok" THEN <<>> ELSE config
           /\ Done("logout", "", io, IF io = "ok" THEN "none" ELSE "config write")

\* A command that ran to its end in one step and sent the requests reqs.
DoneSending(cmd, arg, res, fault, reqs) ==
    /\ last' = [cmd |-> cmd, arg |-> arg, res |-> res, fault |-> fault]
    /\ wire' = reqs
    /\ before' = store
    /\ UNCHANGED <<pc, downloads, installs>>

\* cmd::publish with the upload made whatever release returned.
CmdPublish_unreleased(repository) ==
    /\ pc = "idle"
    /\ UNCHANGED <<manifest, store, config, keyring>>
    /\ IF config = <<>>
       THEN /\ Done("publish", repository, "LoginRequired", "none")
            /\ UNCHANGED registry
       ELSE
       \E released \in ReleaseOutcomes, archive \in SourceArchives :
       LET cfg == config[1]
           package == IF released.err # ""
                      THEN [name |-> "", version |-> "", tgz |-> archive]
                      ELSE released.package[1]
           uri == ArtifactUri(cfg.url, repository, package.name, package.version)
       IN  IF password(cfg) = <<>>
           THEN /\ Done("publish", repository, "AuthUnavailable", "none")
                /\ UNCHANGED registry
           ELSE
           \E response \in PutResponses :
               /\ registry' = IF response = "ok" THEN Stored(uri, package.tgz) ELSE registry
               /\ DoneSending("publish", repository,
                              IF released.err # "" THEN released.err ELSE response,
                              IF response = "ok" THEN "none" ELSE "registry",
                              <<Request("PUT", uri, cfg, <<package.tgz>>)>>)

\* cmd::publish, with Artifactory::publish
CmdPublish(repository) ==
    /\ pc = "idle"
    /\ UNCHANGED <<manifest, store, config, keyring>>
    /\ IF config = <<>>
       THEN /\ Done("publish", repository, "LoginRequired", "none")
            /\ UNCHANGED registry
       ELSE
       \E released \in ReleaseOutcomes :
       IF released.err # ""
       THEN /\ Done("publish", repository, released.err, "none")
            /\ UNCHANGED registry
       ELSE
       LET cfg == config[1]
           package == released.package[1]
           uri == ArtifactUri(cfg.url, repository, package.name, package.version)
       IN  IF password(cfg) = <<>>
           THEN /\ Done("publish", repository, "AuthUnavailable", "none")
                /\ UNCHANGED registry
           ELSE
           \E response \in PutResponses :
               /\ registry' = IF response = "ok" THEN Stored(uri, package.tgz) ELSE registry
               /\ DoneSending("publish", repository, response,
                              IF response = "ok" THEN "none" ELSE "registry",
                              <<Request("PUT", uri, cfg, <<package.tgz>>)>>)

----------------------------------------------------------------------------
(* cmd::install: the downloads run together, then the installs run together. *)

\* PackageStore::install either unpacks the archive or fails.
InstallOutcomes == {"ok", "InstallFailed"}

\* Package::new(dependency.package, dependency.manifest.version, tgz)
Package(name, version, tgz) == [name |-> name, version |-> version, tgz |-> tgz]

\* The uri of a dependency without the directory of its package.
DownloadUri_flat(cfg, dependency) ==
    cfg.url \o "/" \o dependency.repository \o "/" \o dependency.package
        \o "-" \o dependency.version \o ".tgz"

\* The uri Artifactory::download fetches a dependency from:
\* format!("{}/{}/{}/{}-{}.tgz", url, repository, package, package, version)
DownloadUri(cfg, dependency) ==
    cfg.url \o "/" \o dependency.repository \o "/" \o dependency.package
        \o "/" \o dependency.package \o "-" \o dependency.version \o ".tgz"

\* A join that returns with the first future to finish.
Joined_any(futures, state) == \E j \in DOMAIN futures : futures[j].state = state

\* try_join_all returns Ok once every future has.
Joined(futures, state) == \A j \in DOMAIN futures : futures[j].state = state

\* try_join_all returned an error: the command ends, the other futures are dropped.
Abort(res, fault) ==
    /\ pc' = "idle"
    /\ downloads' = <<>>
    /\ installs' = <<>>
    /\ last' = [last EXCEPT !.res = res, !.fault = fault]
    /\ UNCHANGED before

\* The two try_join_all of cmd::install returned Ok.
Finish ==
    /\ pc' = "idle"
    /\ downloads' = <<>>
    /\ installs' = <<>>
    /\ last' = [last EXCEPT !.res = "ok"]
    /\ UNCHANGED before

\* cmd::install up to the first poll of the first try_join_all: one download
\* future per dependency, each run in turn up to its send(); the first
\* password() to fail ends the command.
InstallBegin ==
    /\ pc = "idle"
    /\ UNCHANGED <<manifest, store, config, keyring, registry>>
    /\ IF config = <<>> THEN Done("install", "", "LoginRequired", "none")
       ELSE IF ~manifest.exists THEN Done("install", "", "ManifestNotFound", "none")
       ELSE IF manifest.dependencies = <<>> THEN Done("install", "", "ok", "none")
       ELSE IF password(config[1]) = <<>>
       THEN Done("install", "", "AuthUnavailable", "none")
       ELSE
       /\ pc' = "downloading"
       /\ downloads' = [i \in 1..Len(manifest.dependencies) |->
                          [dependency |-> manifest.dependencies[i],
                           state |-> "sent", package |-> <<>>]]
       /\ wire' = [i \in 1..Len(manifest.dependencies) |->
                     Request("GET", DownloadUri(config[1], manifest.dependencies[i]),
                             config[1], <<>>)]
       /\ installs' = <<>>
       /\ before' = store
       /\ last' = [cmd |-> "install", arg |-> "", res |-> "running", fault |-> "none"]

\* The install futures without the one of the first package.
InstallFutures_but_first(ds) ==
    [i \in 1..(Len(ds) - 1) |-> [package |-> ds[i + 1].package[1], state |-> "created"]]

\* One install future per downloaded package, in the order of the downloads.
RECURSIVE InstallFutures(_)
InstallFutures(ds) ==
    IF ds = <<>> THEN <<>>
    ELSE IF Head(ds).package = <<>> THEN InstallFutures(Tail(ds))
    ELSE <<[package |-> Head(ds).package[1], state |-> "created"]>>
             \o InstallFutures(Tail(ds))

\* Artifactory::download from the response on; the last download to succeed
\* lets cmd::install create one install future per package.
DownloadReceive(i) ==
    /\ pc = "downloading"
    /\ i \in DOMAIN downloads
    /\ downloads[i].state = "sent"
    /\ UNCHANGED <<manifest, store, config, keyring, registry, wire>>
    /\ LET dependency == downloads[i].dependency
           uri == DownloadUri(config[1], dependency)
       IN  \E response \in GetResponses(uri) :
           IF response # "ok" THEN Abort(response, "registry")
           ELSE
           LET package == Package(dependency.package, dependency.version, Artifact(uri)[1])
               received == [downloads EXCEPT ![i].state = "received",
                                             ![i].package = <<package>>]
           IN  /\ downloads' = received
               /\ UNCHANGED <<before, last>>
               /\ IF Joined(received, "received")
                  THEN /\ pc' = "installing"
                       /\ installs' = InstallFutures(received)
                  ELSE UNCHANGED <<pc, installs>>

\* PackageStore::install of one downloaded package; the last install to
\* succeed ends the command.
InstallPackage(i) ==
    /\ pc = "installing"
    /\ i \in DOMAIN installs
    /\ installs[i].state = "created"
    /\ UNCHANGED <<manifest, config, keyring, registry, wire>>
    /\ \E out \in InstallOutcomes :
       IF out # "ok"
       THEN /\ Abort(out, "store install")
            /\ UNCHANGED store
       ELSE
       /\ store' = Installed(store, installs[i].package)
       /\ LET unpacked == [installs EXCEPT ![i].state = "done"]
          IN  IF Joined(unpacked, "done")
              THEN Finish
              ELSE /\ installs' = unpacked
                   /\ UNCHANGED <<pc, downloads, before, last>>

----------------------------------------------------------------------------
(* The program. *)

Init ==
    /\ manifest = NoManifest
    /\ store = EmptyStore
    /\ config = <<>>
    /\ keyring = [e \in KeyringEntries |-> <<>>]
    /\ registry = Upstream
    /\ pc = "idle"
    /\ downloads = <<>>
    /\ installs = <<>>
    /\ wire = <<>>
    /\ before = EmptyStore
    /\ last = [cmd |-> "none", arg |-> "", res |-> "ok", fault |-> "none"]

Next ==
    \/ \E api \in InitApis : CmdInit(api)
    \/ \E dependency \in PinnedSpecs : CmdAdd(dependency)
    \/ \E package \in PackageIds : CmdRemove(package)
    \/ CmdUninstall
    \/ \E url \in Urls, username \in Usernames : CmdLogin(url, username)
    \/ CmdLogout
    \/ \E repository \in PublishRepositories : CmdPublish(repository)
    \/ InstallBegin
    \/ \E i \in 1..MaxDeps : DownloadReceive(i)
    \/ \E i \in 1..MaxDeps : InstallPackage(i)

Spec == Init /\ [][Next]_vars

\* The manifest commands alone, `add` given every string of AddInputs.
NextManifest ==
    \/ \E api \in InitApis : CmdInit(api)
    \/ \E dependency \in AddInputs : CmdAdd(dependency)
    \/ \E package \in PackageIds : CmdRemove(package)

SpecManifest == Init /\ [][NextManifest]_vars

----------------------------------------------------------------------------
(* The claims.  A step of a command is told by the command `last` names    *)
(* after it; a command's own failures (a write, an uninstall, the keyring  *)
(* or the registry failing) are named by last.fault.                       *)

\* The places of the dependencies whose package is p.
Listing(dependencies, p) == {i \in 1..Len(dependencies) : dependencies[i].package = p}

\* The list without its i-th entry.
Without(dependencies, i) ==
    SubSeq(dependencies, 1, i - 1) \o SubSeq(dependencies, i + 1, Len(dependencies))

\* A step of cmd::remove on an existing manifest in which nothing around it fails.
RemoveStep(p) ==
    /\ last'.cmd = "remove"
    /\ last'.arg = p
    /\ last'.fault = "none"
    /\ manifest.exists

\* C1: remove(p) on a manifest that lists a dependency whose package is p
\* succeeds, removes exactly that entry and keeps the others in their order,
\* and uninstalls p and no other package from the store.
C1_RemoveListed ==
    [][\A p \in PackageIds :
          (RemoveStep(p) /\ Listing(manifest.dependencies, p) # {})
          => /\ last'.res = "ok"
             /\ \E i \in Listing(manifest.dependencies, p) :
                    manifest'.dependencies = Without(manifest.dependencies, i)
             /\ store' = [store EXCEPT ![p] = <<>>]]_vars

\* C2: remove(p) on a manifest that lists no dependency whose package is p
\* fails with the unknown-dependency error and leaves the manifest and the
\* store as they were.
C2_RemoveUnlisted ==
    [][\A p \in PackageIds :
          (RemoveStep(p) /\ Listing(manifest.dependencies, p) = {})
          => /\ last'.res = "UnknownDependency"
             /\ manifest' = manifest
             /\ store' = store]_vars

\* C3: the manifest never lists two dependencies with the same package.
C3_UniquePackages ==
    \A i, j \in 1..Len(manifest.dependencies) :
        manifest.dependencies[i].package = manifest.dependencies[j].package => i = j

\* The characters the repository rule allows.
RepositoryRuleChar(c) == c \in LowerAscii \cup {"-"}

\* The characters the version rule allows.
VersionRuleChar(c) ==
    c \in LowerAscii \cup UpperAscii \cup LowerUnicode \cup Digits \cup {".", "-"}

\* A repository, a package and a version that keep every rule.
KeepsRules(repository, package, version) ==
    /\ \A i \in 1..Len(repository) : RepositoryRuleChar(CharAt(repository, i))
    /\ contains(repository, "-proto-")
    /\ ValidPackageId(package)
    /\ \A i \in 1..Len(version) : VersionRuleChar(CharAt(version, i))

\* s has no '/', or no '@' after its first '/', or the parts around the two
\* break a rule.
BreaksRules(s) ==
    LET slash == find_char(s, "/", 1)
        at == find_char(s, "@", slash + 1)
    IN  \/ slash = 0
        \/ at = 0
        \/ ~KeepsRules(SubSeq(s, 1, slash - 1), SubSeq(s, slash + 1, at - 1),
                       SubSeq(s, at + 1, Len(s)))

\* The errors of the checks of cmd::add.
ValidationErrors ==
    {"InvalidSpec", "RepositoryFormat", "NotProtoRepository", "InvalidPackageId",
     "VersionFormat"}

\* C4, as claimed: add(s) fails and leaves the manifest as it was whenever s
\* itself breaks a rule (whatever the error add fails with).
C4_AddRefusesAsClaimed ==
    [][last'.cmd = "add" /\ BreaksRules(last'.arg)
       => last'.res # "ok" /\ manifest' = manifest]_vars

\* C4, amended: add(s) fails with a validation error and leaves the manifest
\* as it was whenever s without the white space around it breaks a rule.
C4_AddRefuses ==
    [][last'.cmd = "add" /\ BreaksRules(trim(last'.arg))
       => last'.res \in ValidationErrors /\ manifest' = manifest]_vars

\* A state where `add` has refused the string of the spec's example on a
\* manifest that lists a dependency.
C4_Reached ==
    /\ last.cmd = "add"
    /\ last.arg = "org_proto_stable/foo@1.0.0"
    /\ BreaksRules(trim(last.arg))
    /\ last.res \in ValidationErrors
    /\ manifest.dependencies # <<>>

\* C5: add of "<repo>/<pkg>@<ver>" whose parts keep every rule, on an existing
\* manifest whose write does not fail, succeeds and appends exactly
\* {repo, pkg, ver} at the end of the list, from which the string is rebuilt;
\* the earlier entries and the api section stay as they were.
C5_AddAppends ==
    [][last'.cmd = "add" =>
       \A i, j \in 1..Len(last'.arg) :
          LET s == last'.arg
              repo == SubSeq(s, 1, i - 1)
              pkg == SubSeq(s, i + 1, j - 1)
              ver == SubSeq(s, j + 1, Len(s))
          IN  (/\ i < j
               /\ CharAt(s, i) = "/"
               /\ CharAt(s, j) = "@"
               /\ KeepsRules(repo, pkg, ver)
               /\ manifest.exists
               /\ last'.fault = "none")
              => /\ last'.res = "ok"
                 /\ manifest' = [manifest EXCEPT !.dependencies =
                        Append(@, [repository |-> repo, package |-> pkg, version |-> ver])]
                 /\ LET d == manifest'.dependencies[Len(manifest'.dependencies)]
                    IN  SpecString(d.repository, d.package, d.version) = s]_vars

\* A state where `add` has appended a second, different dependency.
C5_Reached ==
    /\ last.cmd = "add"
    /\ last.res = "ok"
    /\ Len(manifest.dependencies) = 2
    /\ manifest.dependencies[1] # manifest.dependencies[2]
    /\ LET d == manifest.dependencies[2]
       IN  SpecString(d.repository, d.package, d.version) = last.arg

\* The errors of a download.
DownloadErrors == {"AuthUnavailable", "FetchFailed", "TransportError"}

\* C6: a step of the install command changes the store only when every
\* download of the batch has completed; while one has not, and after one has
\* failed, the store is as it was when the command started.
C6_InstallsAfterDownloads ==
    [][last'.cmd = "install" =>
        /\ store' # store =>
              \A i \in DOMAIN downloads : downloads[i].state = "received"
        /\ (\/ last'.res = "running" /\ \E i \in DOMAIN downloads' :
                                          downloads'[i].state # "received"
            \/ last'.res \in DownloadErrors)
           => store' = before']_vars

\* A state where, of two downloads, one was refused by the registry.
C6_Reached ==
    /\ last.cmd = "install"
    /\ last.res = "FetchFailed"
    /\ Len(wire) = 2
    /\ wire[1].uri # wire[2].uri
    /\ \E a \in registry : a.uri \in {wire[1].uri, wire[2].uri}
    /\ store = before

\* C7: a logout right after a successful login, the keyring and the config
\* write not failing, succeeds and leaves no password for the login's entry
\* and no connection record; only login and logout change the record; and a
\* publish without a record fails with the login-required error and sends
\* nothing.
C7_LoginLogoutPublish ==
    [][/\ (last.cmd = "login" /\ last.res = "ok" /\ last'.cmd = "logout"
            /\ last'.fault = "none")
          => /\ last'.res = "ok"
             /\ keyring'[last.arg] = <<>>
             /\ config' = <<>>
       /\ config' # config => last'.cmd \in {"login", "logout"}
       /\ (last'.cmd = "publish" /\ config = <<>>)
          => /\ last'.res = "LoginRequired"
             /\ wire' = <<>>
             /\ registry' = registry]_vars

\* A state where publish was refused for want of a login although the
\* manifest declares an api and the keyring holds nothing.
C7_Reached ==
    /\ last.cmd = "publish"
    /\ last.res = "LoginRequired"
    /\ manifest.api # <<>>
    /\ config = <<>>
    /\ \A e \in KeyringEntries : keyring[e] = <<>>
    /\ wire = <<>>

\* C8: a logout with a connection record whose entry holds no password
\* succeeds and, the config write not failing, clears the record.
C8_LogoutIdempotent ==
    [][(/\ last'.cmd = "logout"
        /\ config # <<>>
        /\ keyring[entry(config[1])] = <<>>
        /\ last'.fault = "none")
       => last'.res = "ok" /\ config' = <<>>]_vars

\* C9: a logout whose deletion of the password fails still clears the
\* connection record.
C9_LogoutClearsAnyway ==
    [][(last'.cmd = "logout" /\ config # <<>> /\ last'.res = "SecretStoreError")
       => config' = <<>>]_vars

\* A step of Artifactory::publish: publish with a connection record and a
\* released package.
PublishCall ==
    /\ last'.cmd = "publish"
    /\ config # <<>>
    /\ manifest.exists
    /\ manifest.api # <<>>

\* A step of the calls of Artifactory::download: install with a connection
\* record and a manifest that lists dependencies.
DownloadCall ==
    /\ last'.cmd = "install"
    /\ pc = "idle"
    /\ config # <<>>
    /\ manifest.exists
    /\ manifest.dependencies # <<>>

\* C10: with a connection record whose entry holds no password, publish and
\* download fail with the auth-unavailable error and no request is sent; and
\* a request that is sent carries the password the keyring holds then.
C10_SecretAtCallTime ==
    [][/\ (PublishCall /\ keyring[entry(config[1])] = <<>>)
          => /\ last'.res = "AuthUnavailable"
             /\ wire' = <<>>
             /\ registry' = registry
       /\ (DownloadCall /\ keyring[entry(config[1])] = <<>>)
          => /\ last'.res = "AuthUnavailable"
             /\ wire' = <<>>
             /\ pc' = "idle"
       /\ (PublishCall \/ DownloadCall)
          => \A k \in 1..Len(wire') :
                /\ wire'[k].username = config[1].username
                /\ <<wire'[k].password>> = keyring[entry(config[1])]]_vars

\* A state where publish, with a connection record and an api package to
\* release, found no password and sent nothing.
C10_Reached ==
    /\ last.cmd = "publish"
    /\ last.res = "AuthUnavailable"
    /\ config # <<>>
    /\ keyring[entry(config[1])] = <<>>
    /\ wire = <<>>

\* C11: a remove whose store uninstall fails fails and leaves the manifest
\* file as it was before the command.
C11_UninstallFailureKeepsManifest ==
    [][(last'.cmd = "remove" /\ last'.fault = "store uninstall")
       => last'.res = "UninstallFailed" /\ manifest' = manifest]_vars

\* A state where remove has failed at the store on a manifest that still
\* lists the two dependencies it listed.
C11_Reached ==
    /\ last.cmd = "remove"
    /\ last.res = "UninstallFailed"
    /\ last.fault = "store uninstall"
    /\ Len(manifest.dependencies) = 2

\* The failures of a branch of the install command: a download refused or
\* lost by the registry, an archive the store could not unpack.
BranchFaults == {"registry", "store install"}

\* The package the store holds after dependency d was downloaded with the
\* connection record cfg and installed.
InstalledFrom(cfg, d) ==
    [version |-> d.version, tgz |-> Artifact(DownloadUri(cfg, d))[1]]

\* C12: the install command ends with success only with every package the
\* manifest declares in the store, as downloaded for one of its declared
\* dependencies; and a step in which a download or an install fails ends the
\* whole command with a failure.
C12_InstallAllOrFail ==
    [][last'.cmd = "install" =>
        /\ last'.res = "ok" =>
              \A k \in 1..Len(manifest.dependencies) :
                 LET d == manifest.dependencies[k]
                 IN  /\ store'[d.package] # <<>>
                     /\ \E j \in Listing(manifest.dependencies, d.package) :
                            store'[d.package][1] =
                                InstalledFrom(config[1], manifest.dependencies[j])
        /\ last'.fault \in BranchFaults =>
              /\ last'.res \notin {"ok", "running"}
              /\ pc' = "idle"]_vars

\* A state where the install command has succeeded with two different
\* packages declared and installed.
C12_Reached ==
    /\ last.cmd = "install"
    /\ last.res = "ok"
    /\ pc = "idle"
    /\ Len(manifest.dependencies) = 2
    /\ manifest.dependencies[1].package # manifest.dependencies[2].package
    /\ \A k \in 1..2 : store[manifest.dependencies[k].package] # <<>>

\* C13: a publish that succeeds has sent its archive to, and left it at, the
\* uri a download of the dependency (repository, name, version) fetches; and
\* a download that succeeds has asked the uri a publish of (name, version) to
\* the repository writes, and returns the archive the registry holds there.
C13_SameAddress ==
    [][/\ (last'.cmd = "publish" /\ last'.res = "ok") =>
             LET api == manifest.api[1]
                 uri == DownloadUri(config[1],
                                    Dependency(last'.arg, api.name, api.version))
             IN  /\ Len(wire') = 1
                 /\ wire'[1].method = "PUT"
                 /\ wire'[1].uri = uri
                 /\ \A a \in registry' : a.uri = uri => <<a.tgz>> = wire'[1].body
                 /\ \E a \in registry' : a.uri = uri
       /\ \A i \in DOMAIN downloads' :
             (/\ downloads'[i].state = "received"
              /\ i \in DOMAIN downloads
              /\ downloads[i].state = "sent") =>
             LET d == downloads[i].dependency
                 uri == ArtifactUri(config[1].url, d.repository, d.package, d.version)
             IN  /\ wire[i].method = "GET"
                 /\ wire[i].uri = uri
                 /\ downloads'[i].package[1].name = d.package
                 /\ downloads'[i].package[1].version = d.version
                 /\ [uri |-> uri, tgz |-> downloads'[i].package[1].tgz] \in registry]_vars

\* A state where a download has returned the archive this project published
\* for its own api package.
C13_Reached ==
    /\ last.cmd = "install"
    /\ manifest.api # <<>>
    /\ \E i \in DOMAIN downloads :
          /\ downloads[i].state = "received"
          /\ downloads[i].dependency.package = manifest.api[1].name
          /\ downloads[i].dependency.version = manifest.api[1].version
          /\ downloads[i].package[1].tgz \in SourceArchives

\* The secrets login is given.
Secrets == {trim(line) : line \in TokenLines}

\* At most one connection record, made of an endpoint and a username, with no
\* secret in it.
ConfigShape(cfg) ==
    \/ cfg = <<>>
    \/ /\ Len(cfg) = 1
       /\ DOMAIN cfg[1] = {"url", "username"}
       /\ cfg[1].url \in Urls
       /\ cfg[1].username \in Usernames
       /\ \A f \in DOMAIN cfg[1] : cfg[1][f] \notin Secrets

\* C14: after every step the config holds at most one connection record, of
\* an endpoint and a username only and with no secret; and what a step leaves
\* in the config is told by the command, its endpoint and username and its
\* outcome, whatever the secret: a login that succeeds leaves its own record,
\* a logout that succeeds none, every other step the config as it was.
C14_ConfigHoldsNoSecret ==
    [][/\ ConfigShape(config')
       /\ config' =
            IF last'.cmd = "login" /\ last'.res = "ok"
            THEN <<[url |-> last'.arg.url, username |-> last'.arg.username]>>
            ELSE IF last'.cmd = "logout" /\ last'.res = "ok" THEN <<>>
            ELSE config]_vars

\* A state where two logins that succeeded, given different secrets, have
\* left the keyring holding both and the config holding the record of the
\* second alone.
C14_Reached ==
    /\ last.cmd = "login"
    /\ last.res = "ok"
    /\ config = <<last.arg>>
    /\ keyring[entry(config[1])] = <<"y">>
    /\ \E e \in KeyringEntries : e # entry(config[1]) /\ keyring[e] = <<"x">>

\* C15: init on an existing manifest fails and leaves its api section and
\* its dependencies as they were; init without one, the write not failing,
\* succeeds and leaves a manifest with no dependency and, when an api
\* identifier was given, an api section of that name and of version "0.0.1".
C15_InitOnce ==
    [][last'.cmd = "init" =>
        IF manifest.exists
        THEN /\ last'.res = "ExistingProject"
             /\ manifest' = manifest
        ELSE last'.fault = "none" =>
             /\ last'.res = "ok"
             /\ manifest'.exists
             /\ manifest'.dependencies = <<>>
             /\ last'.arg # <<>> =>
                   /\ Len(manifest'.api) = 1
                   /\ manifest'.api[1].name = last'.arg[1]
                   /\ manifest'.api[1].version = "0.0.1"]_vars

\* A state where init with an api identifier was refused on a manifest that
\* declares no api and lists a dependency.
C15_Reached ==
    /\ last.cmd = "init"
    /\ last.arg # <<>>
    /\ last.res = "ExistingProject"
    /\ manifest.exists
    /\ manifest.api = <<>>
    /\ manifest.dependencies # <<>>

\* C16: the installs of one batch that have not finished write locations of
\* different packages.
C16_DisjointDestinations ==
    pc = "installing" =>
        \A i, j \in DOMAIN installs :
            (/\ installs[i].state = "created"
             /\ installs[j].state = "created"
             /\ installs[i].package.name = installs[j].package.name)
            => i = j

\* C17: a remove that fails leaves the manifest file and the store as they
\* were before it.
C17_RemoveFailsAtomically ==
    [][(last'.cmd = "remove" /\ last'.res # "ok")
       => manifest' = manifest /\ store' = store]_vars

\* The errors of PackageStore::release.
ReleaseErrors == {"ManifestNotFound", "NotAnApi"}

\* C18: publish leaves the manifest file, the store and the config as they
\* were; without a connection record, or with a release that fails (as it
\* does without a manifest, or with one that has no api section), it fails,
\* sends no request and leaves the registry as it was; and a request it sends
\* is one PUT of the archive release made of the api package.
C18_PublishAfterRelease ==
    [][last'.cmd = "publish" =>
        /\ manifest' = manifest
        /\ store' = store
        /\ config' = config
        /\ (\/ config = <<>>
            \/ ~manifest.exists
            \/ manifest.api = <<>>
            \/ last'.res \in ReleaseErrors)
           => /\ last'.res \in {"LoginRequired"} \cup ReleaseErrors
              /\ wire' = <<>>
              /\ registry' = registry
        /\ (manifest.exists /\ manifest.api = <<>> /\ config # <<>>)
           => last'.res = "NotAnApi"
        /\ wire' # <<>> =>
              /\ Len(wire') = 1
              /\ wire'[1].method = "PUT"
              /\ wire'[1].body \in {<<t>> : t \in SourceArchives}]_vars

\* A state where publish, logged in and with a password in the keyring, has
\* failed at the release of a manifest without an api section and has sent
\* nothing.
C18_Reached ==
    /\ last.cmd = "publish"
    /\ last.res = "NotAnApi"
    /\ config # <<>>
    /\ keyring[entry(config[1])] # <<>>
    /\ manifest.exists
    /\ manifest.api = <<>>
    /\ wire = <<>>
    /\ registry = Upstream

\* No entry of the keyring holds a password but the one of the connection
\* record of the config.
NoStraySecret ==
    \A e \in KeyringEntries : keyring[e] # <<>> => config = <<e>>

\* C19: a login or a logout that succeeds, from a state where the keyring
\* holds no password but for the connection record, leaves such a state.
C19_NoStraySecret ==
    [][(NoStraySecret /\ last'.cmd \in {"login", "logout"} /\ last'.res = "ok")
       => NoStraySecret']_vars

\* C20: a login whose password the keyring fails to store fails with the
\* secret store's error and leaves the config as it was.
C20_LoginFailureKeepsConfig ==
    [][(last'.cmd = "login" /\ last'.fault = "keyring set")
       => /\ last'.res = "SecretStoreError"
          /\ config' = config]_vars

\* A state where a login has failed at the keyring and the config holds no
\* record, the keyring no password, for its endpoint and username.
C20_Reached ==
    /\ last.cmd = "login"
    /\ last.res = "SecretStoreError"
    /\ last.fault = "keyring set"
    /\ config # <<last.arg>>
    /\ keyring[last.arg] = <<>>
    /\ \E e \in KeyringEntries : keyring[e] # <<>>

============================================================================
